---- MODULE Spec2Model ----
(***************************************************************************)
(* Zora alarm engine: the App component's tick effect, dedupe set, ringing *)
(* state, side effects (looped audio, vibration, event chime) and the      *)
(* asynchronous AI greeting, as written in App.tsx (src/unnamed/part_002). *)
(*                                                                         *)
(* Time is the real clock: an instant is a number of seconds since        *)
(* 00:00:00 UTC of day 0, the host zone an offset in minutes fixed for a   *)
(* run, and the clock is read at sampled instants around the alarm times.  *)
(* setRingingAlarm and the re-render are one step with the handler that    *)
(* called it; the effect that copies ringingAlarm into ringingAlarmRef     *)
(* runs after the render, as a step of its own.                            *)
(***************************************************************************)
EXTENDS Integers, Sequences, FiniteSets, TLC

\* ---------------------------------------------------------------- bounds
MaxDay == 1          \* the clock is read on local calendar days 0..MaxDay
MaxIds == 2          \* alarms created in a run
MaxStored == 3       \* items found in localStorage at start

\* what Date's accessors divide by
SecondsPerMinute == 60
MinutesPerDay == 1440

\* the taps on the overlay that are followed: those of its first MaxTapSpan ms
MaxTapSpan == 600

\* host zones: UTC-5, UTC, UTC+5:30 (minutes east of UTC)
TzOffsets == {-300, 0, 330}
\* the times of day alarms are set to, "02:00" and "21:00" (minute of the day)
Times == {120, 1260}
\* the seconds of those minutes at which the clock is read
SampledSeconds == {0, 1}
Days == 0..MaxDay

\* the instants (seconds since 00:00:00 UTC of day 0) at which a host in zone `off`
\* reads its clock: local days `days`, at the alarm times, at the sampled seconds
Readings(off, days) ==
    {(d * MinutesPerDay + hm - off) * SecondsPerMinute + sec :
        d \in days, hm \in Times, sec \in SampledSeconds}

VARIABLES
    tz,                   \* host time-zone offset, minutes east of UTC
    online,               \* navigator.onLine
    now,                  \* the wall clock: an instant, seconds since 00:00:00 UTC of day 0
    alarms,               \* useState<Alarm[]>
    nextId,               \* ids handed out so far + 1 (ids are never reused)
    ringingAlarm,         \* useState<Alarm | null>
    ringingAlarmRef,      \* useRef<Alarm | null>
    effectsPending,       \* setRingingAlarm was called and the effects of that
                          \* render (the ringingAlarmRef sync) have not run yet
    triggeredItemsRef,    \* useRef<Set<string>>
    vibrationIntervalRef, \* TRUE while the repeating vibration interval exists
    alarmAudio,           \* the <audio> element: src, loop, paused, volume (thousandths)
    currentAiSourceRef,   \* the narration source the ref holds, NoSource = null
    aiPlaying,            \* narration sources that are audible
    greetings,            \* playAiGreeting calls in flight
    eventNotification,    \* id of the event shown in the banner, 0 = null
    bannerTimers,         \* pending setTimeout(() => setEventNotification(null))
    curGen,               \* history: the occurrence key that started the live ringing context, <<>> = Idle
    matched,              \* the last call of isAlarmOnDate on its own: arguments and result, <<>> = none
    rampInterval,         \* TRUE while the volume-ramp interval exists (the App with the ramp effect)
    sampled,              \* history: the volume after the last ramp callback of this ring, -1 = none yet
    overlay,              \* RingingAlarmOverlay: isDragging, sliderPos, lastTapRef and the clock its taps read
    customSounds,         \* localStorage harusync_custom_sounds, parsed
    storage,              \* localStorage zora_alarms: the JSON text
    isAiProcessing,       \* useState<boolean>: a quick add is in flight
    notificationThrows,   \* the host: permission is granted and new Notification(...) throws
    timers,               \* the setInterval timers alive: tick, vibration, ramp (how many of each)
    dropped,              \* history: the occurrence keys of the alarms that were due while another rang
    fx                    \* history: what the last step did

vars == <<tz, online, now, alarms, nextId, ringingAlarm, ringingAlarmRef, effectsPending,
          triggeredItemsRef, vibrationIntervalRef, alarmAudio, currentAiSourceRef,
          aiPlaying, greetings, eventNotification, bannerTimers, curGen, matched,
          rampInterval, sampled, overlay, customSounds, storage, isAiProcessing,
          notificationThrows, timers, dropped, fx>>

\* ------------------------------------------------------------ data model
Types == {"alarm", "event"}

NoAlarm == [id |-> 0, time |-> 0, type |-> "alarm", specificDates |-> {},
            dateRange |-> <<>>, repeatDays |-> {}, isEnabled |-> FALSE,
            soundId |-> "", isAiEnabled |-> FALSE]

\* the catalog entries: id and url
DEFAULT_SOUNDS ==
    <<[id |-> "classic", url |-> "beep_short.ogg"],
      [id |-> "mellow", url |-> "digital_watch_alarm_long.ogg"],
      [id |-> "morning", url |-> "alarm_clock_ringing.ogg"],
      [id |-> "zen", url |-> "spaceship_alarm.ogg"]>>

\* saved ? JSON.parse(saved) : []
getStoredCustomSounds == customSounds

\* ----------------------------------------------------------------- clock
\* now.getSeconds()
getSeconds(t) == t % SecondsPerMinute

UtcMinute(t) == t \div SecondsPerMinute

\* formatDateKey(date) = date.toISOString().split('T')[0]: the UTC calendar date
formatDateKey(t) == UtcMinute(t) \div MinutesPerDay

\* `${now.getHours()}:${now.getMinutes()}` : the local time of day, in minutes
CurrentTimeStr(t, off) == (UtcMinute(t) + off) % MinutesPerDay

\* the local calendar date of the same clock reading
LocalDate(t, off) == (UtcMinute(t) + off) \div MinutesPerDay

\* new Date(dateKey).getDay(): dateKey is parsed as UTC midnight and getDay() is
\* the local weekday of that instant (day 0 is Friday 2024-03-01)
getDay(dateKey, off) ==
    (LocalDate(dateKey * MinutesPerDay * SecondsPerMinute, off) + 5 + 7) % 7

\* ------------------------------------------------------- recurrence match
\* a matcher whose range excludes its last day
isAlarmOnDateOpenEnded(a, dateKey, off) ==
    \/ dateKey \in a.specificDates
    \/ a.dateRange # <<>> /\ dateKey >= a.dateRange[1] /\ dateKey < a.dateRange[2]
    \/ getDay(dateKey, off) \in a.repeatDays

isAlarmOnDate(a, dateKey, off) ==
    \/ dateKey \in a.specificDates
    \/ a.dateRange # <<>> /\ dateKey >= a.dateRange[1] /\ dateKey <= a.dateRange[2]
    \/ getDay(dateKey, off) \in a.repeatDays

\* a predicate that does not look at isEnabled
IsDueIgnoringEnabled(a, cur, todayKey, off) ==
    a.time = cur /\ isAlarmOnDate(a, todayKey, off)

\* the predicate of alarms.find in the tick
IsDue(a, cur, todayKey, off) ==
    a.isEnabled /\ a.time = cur /\ isAlarmOnDate(a, todayKey, off)

\* alarms.find(...): index of the first match, 0 when there is none
FindTriggered(list, cur, todayKey, off) ==
    LET hits == {i \in 1..Len(list) : IsDue(list[i], cur, todayKey, off)}
    IN IF hits = {} THEN 0 ELSE CHOOSE i \in hits : \A j \in hits : i <= j

\* a gate that forgets what it has let through
DedupeGateOpen(key, consumed) == TRUE

\* !triggeredItemsRef.current.has(secondKey)
DedupeGate(key, consumed) == key \notin consumed

\* a ringing guard that lets every alarm through
CanRingAlways(r) == TRUE

\* if (!ringingAlarm)
CanRing(r) == r = NoAlarm

\* a lookup without the fallback: no source for an id the catalog does not have
ResolveSoundNoFallback(soundId) ==
    LET allSounds == DEFAULT_SOUNDS \o getStoredCustomSounds
        hits == {i \in 1..Len(allSounds) : allSounds[i].id = soundId}
    IN IF hits # {}
       THEN allSounds[CHOOSE i \in hits : \A j \in hits : i <= j].url
       ELSE ""

\* allSounds.find(s => s.id === triggered.soundId) || DEFAULT_SOUNDS[0]
ResolveSound(soundId) ==
    LET allSounds == DEFAULT_SOUNDS \o getStoredCustomSounds
        hits == {i \in 1..Len(allSounds) : allSounds[i].id = soundId}
    IN IF hits # {}
       THEN allSounds[CHOOSE i \in hits : \A j \in hits : i <= j].url
       ELSE DEFAULT_SOUNDS[1].url

\* ---------------------------------------------------------------- ghosts
\* what a step did: the handler, the occurrence key that passed the gate and the item
\* it was for, the item that rang or chimed, whether the audio source was set and
\* played, the vibration interval started, a greeting requested, and the ringing
\* context of the narration that was played, discarded as stale or stopped, what it
\* wrote to the console, and the gesture on the overlay that it handled
NoFx == [op |-> "none", key |-> <<>>, fired |-> 0, ring |-> 0, chime |-> 0,
         audio |-> FALSE, vib |-> FALSE, greet |-> FALSE, play |-> <<>>,
         stale |-> <<>>, stopped |-> <<>>, log |-> "", gesture |-> <<>>,
         target |-> 0, was |-> <<>>, text |-> <<>>, sent |-> FALSE,
         again |-> FALSE]

\* a narration AudioBufferSourceNode: the ringing context and the alarm it was made for
NoSource == [gen |-> <<>>, alarm |-> 0]

\* ------------------------------------------------------------- storage
\* a serialisation that drops the date range
JsonKeysWithoutRange(a) ==
    {"id", "time", "type", "isEnabled", "soundId"}
        \cup (IF a.specificDates # {} THEN {"specificDates"} ELSE {})
        \cup (IF a.repeatDays # {} THEN {"repeatDays"} ELSE {})
        \cup (IF a.isAiEnabled THEN {"isAiEnabled"} ELSE {})

\* JSON.stringify leaves out the properties whose value is undefined; in the records
\* of this model an absent list of dates, range, repeat days or isAiEnabled is the
\* empty or FALSE value that NoAlarm holds
JsonKeys(a) ==
    {"id", "time", "type", "isEnabled", "soundId"}
        \cup (IF a.specificDates # {} THEN {"specificDates"} ELSE {})
        \cup (IF a.dateRange # <<>> THEN {"dateRange"} ELSE {})
        \cup (IF a.repeatDays # {} THEN {"repeatDays"} ELSE {})
        \cup (IF a.isAiEnabled THEN {"isAiEnabled"} ELSE {})

\* JSON.stringify(alarms): one object per item, the defined properties only
JsonStringify(list) ==
    [i \in 1..Len(list) |-> [k \in JsonKeys(list[i]) |-> list[i][k]]]

\* JSON.parse(saved): a property the text does not have reads as undefined
JsonParse(text) ==
    [i \in 1..Len(text) |->
        [k \in DOMAIN NoAlarm |-> IF k \in DOMAIN text[i] THEN text[i][k] ELSE NoAlarm[k]]]

\* ------------------------------------------------------------- overlay
\* Date.now() when the overlay is mounted, in ms (any value of 300 or more)
MountTime == 1000

\* useState(0), useState(false), useRef<number>(0); ms is the clock Date.now() reads
FreshOverlay ==
    [isDragging |-> FALSE, sliderPos |-> 0, lastTapRef |-> 0, ms |-> MountTime]

\* -------------------------------------------------------------- timers
\* a clearInterval that leaves the timer alive
ClearIntervalSkipped(n) == n

\* clearInterval(id) of a timer that is alive, n of its kind being alive
ClearInterval(n) == IF n > 0 THEN n - 1 ELSE 0

\* the trigger effect runs again after a render that changed alarms or ringingAlarm:
\* its cleanup clears the interval, its body sets a new one
RestartTick(t) == [t EXCEPT !.tick = ClearInterval(t.tick) + 1]

\* ------------------------------------------------------------------ Init
Min(S) == CHOOSE x \in S : \A y \in S : x <= y

\* the state after construction: `saved` is what localStorage holds under zora_alarms
\* and `sounds` what it holds under harusync_custom_sounds
StartWith(zones, net, saved, sounds, hosts) ==
    /\ tz \in zones
    /\ online \in net
    /\ now = Min(Readings(tz, Days))
    /\ alarms \in saved
    /\ nextId = Len(alarms) + 1
    /\ ringingAlarm = NoAlarm
    /\ ringingAlarmRef = NoAlarm
    /\ effectsPending = FALSE
    /\ triggeredItemsRef = {}
    /\ vibrationIntervalRef = FALSE
    /\ alarmAudio = [src |-> "", loop |-> FALSE, paused |-> TRUE, volume |-> 1000]
    /\ currentAiSourceRef = NoSource
    /\ aiPlaying = {}
    /\ greetings = {}
    /\ eventNotification = 0
    /\ bannerTimers = 0
    /\ curGen = <<>>
    /\ matched = <<>>
    /\ rampInterval = FALSE
    /\ sampled = -1
    /\ overlay = FreshOverlay
    /\ customSounds \in sounds
    /\ storage = JsonStringify(alarms)
    /\ isAiProcessing = FALSE
    /\ notificationThrows \in hosts
    /\ timers = [tick |-> 1, vibration |-> 0, ramp |-> 0]
    /\ dropped = {}
    /\ fx = NoFx

Start(zones, net, saved) == StartWith(zones, net, saved, {<<>>}, {FALSE})

\* the modal's form state when Save is pressed
FormInputs ==
    {f \in [time : Times, type : Types, specificDates : {{0}}, useRange : BOOLEAN,
             rangeFrom : {0}, rangeTo : {MaxDay}, repeatDays : {{}},
             soundId : {"classic"}] : f.useRange = (f.type = "event")}

\* the form of an alarm that repeats on Fridays (weekday 5) and has no date picked
FormInputsWeekly ==
    [time : Times, type : {"alarm"}, specificDates : {{}}, useRange : {FALSE},
     rangeFrom : {0}, rangeTo : {MaxDay}, repeatDays : {{5}}, soundId : {"classic"}]

\* a save that hands over both date forms of the form state
handleSaveBothForms(f) ==
    [id |-> 0, time |-> f.time, type |-> f.type,
     specificDates |-> f.specificDates,
     dateRange |-> <<f.rangeFrom, f.rangeTo>>,
     repeatDays |-> f.repeatDays,
     isEnabled |-> TRUE, soundId |-> f.soundId, isAiEnabled |-> FALSE]

\* AlarmModal.handleSave: the record handed to onSave (no id yet)
handleSave(f) ==
    LET finalUseRange == f.type = "event" \/ f.useRange
    IN [id |-> 0, time |-> f.time, type |-> f.type,
        specificDates |-> IF ~finalUseRange THEN f.specificDates ELSE {},
        dateRange |-> IF finalUseRange THEN <<f.rangeFrom, f.rangeTo>> ELSE <<>>,
        repeatDays |-> f.repeatDays,
        isEnabled |-> TRUE, soundId |-> f.soundId, isAiEnabled |-> FALSE]

\* lists saved by earlier runs: records made by handleSave, ids in order of creation
StoredLists ==
    UNION {[1..n -> {handleSave(f) : f \in FormInputs}] : n \in 0..MaxStored}

WithIds(list) == [i \in 1..Len(list) |-> [list[i] EXCEPT !.id = i]]

Init == Start({0}, BOOLEAN, {<<>>})

InitOffline == Start(TzOffsets, {FALSE}, {<<>>})

InitStored == Start({0}, {FALSE}, {WithIds(l) : l \in StoredLists})
\* --------------------------------------------------------------- actions
\* The timer tick, the user's gestures and edits come at a human pace: the render
\* that follows a state update and its effects are over before the next of them.
\* Only the answers of the network can fall in between.

\* wall-clock time passes until the next reading, on one of the days `days`
Advance(days) ==
    /\ ~effectsPending
    /\ \E t \in Readings(tz, days) : t > now
    /\ now' = Min({t \in Readings(tz, days) : t > now})
    /\ fx' = NoFx
    /\ UNCHANGED <<tz, online, alarms, nextId, ringingAlarm, ringingAlarmRef,
                   effectsPending, triggeredItemsRef, vibrationIntervalRef,
                   alarmAudio, currentAiSourceRef, aiPlaying, greetings,
                   eventNotification, bannerTimers, curGen,
                   matched, rampInterval, sampled,
                   overlay, customSounds, storage, isAiProcessing,
                   notificationThrows, timers, dropped>>

\* useEffect(() => { ringingAlarmRef.current = ringingAlarm; }, [ringingAlarm])
SyncRingingAlarmRef ==
    /\ effectsPending
    /\ ringingAlarmRef' = ringingAlarm
    /\ effectsPending' = FALSE
    /\ fx' = NoFx
    /\ UNCHANGED dropped
    /\ timers' = RestartTick(timers)
    /\ UNCHANGED <<tz, online, now, alarms, nextId, ringingAlarm, triggeredItemsRef,
                   vibrationIntervalRef, alarmAudio, currentAiSourceRef, aiPlaying,
                   greetings, eventNotification, bannerTimers, curGen,
                   matched, rampInterval, sampled,
                   overlay, customSounds, storage, isAiProcessing,
                   notificationThrows>>

\* ---- the tick: setInterval callback of the trigger effect
secondKey == <<formatDateKey(now), CurrentTimeStr(now, tz)>>

TriggeredIdx == FindTriggered(alarms, CurrentTimeStr(now, tz), formatDateKey(now), tz)

\* a condition without the test of the seconds
FiresAnySecond ==
    /\ TriggeredIdx # 0
    /\ DedupeGate(secondKey, triggeredItemsRef)

\* triggered && !triggeredItemsRef.current.has(secondKey) && now.getSeconds() === 0
Fires ==
    /\ TriggeredIdx # 0
    /\ DedupeGate(secondKey, triggeredItemsRef)
    /\ getSeconds(now) = 0

\* the condition fails: the callback does nothing
TickIdle ==
    /\ ~effectsPending
    /\ ~Fires
    /\ fx' = [NoFx EXCEPT !.op = "tick"]
    /\ UNCHANGED <<tz, online, now, alarms, nextId, ringingAlarm, ringingAlarmRef,
                   effectsPending, triggeredItemsRef, vibrationIntervalRef,
                   alarmAudio, currentAiSourceRef, aiPlaying, greetings,
                   eventNotification, bannerTimers, curGen,
                   matched, rampInterval, sampled,
                   overlay, customSounds, storage, isAiProcessing,
                   notificationThrows, timers, dropped>>

\* a test of the kind that takes every item for an alarm
IsEventNever(a) == FALSE

\* triggered.type === 'event'
IsEvent(a) == a.type = "event"

\* playEventChime: tone, vibration burst, notification, banner and its timeout, all
\* inside one try; when new Notification(...) throws, the catch logs and the two
\* statements after it are not reached
playEventChime(id) ==
    IF notificationThrows
    THEN UNCHANGED <<eventNotification, bannerTimers>>
    ELSE /\ eventNotification' = id
         /\ bannerTimers' = bannerTimers + 1

\* triggered.type === 'event': playEventChime(triggered.label)
TickChime ==
    /\ ~effectsPending
    /\ Fires
    /\ IsEvent(alarms[TriggeredIdx])
    /\ triggeredItemsRef' = triggeredItemsRef \cup {secondKey}
    /\ playEventChime(alarms[TriggeredIdx].id)
    /\ fx' = [NoFx EXCEPT !.op = "tick", !.key = secondKey,
                          !.fired = alarms[TriggeredIdx].id,
                          !.chime = alarms[TriggeredIdx].id,
                          !.log = IF notificationThrows
                                  THEN "Event chime failed:" ELSE ""]
    /\ UNCHANGED <<tz, online, now, alarms, nextId, ringingAlarm, ringingAlarmRef,
                   effectsPending, vibrationIntervalRef, alarmAudio,
                   currentAiSourceRef, aiPlaying, greetings, curGen,
                   matched, rampInterval, sampled,
                   overlay, customSounds, storage, isAiProcessing,
                   notificationThrows, timers, dropped>>

\* an audio element that is given its source but not started
PlayLoopedNotStarted(audio, src) == [audio EXCEPT !.src = src]

\* alarmAudioRef.current.src = sound.url; .loop = true; .play()
PlayLooped(audio, src) == [audio EXCEPT !.src = src, !.loop = TRUE, !.paused = FALSE]

\* startAlarmVibration: the interval exists afterwards
startAlarmVibration == TRUE

\* a stopVibration that leaves the interval running
stopVibrationSkipped == TRUE

\* stopVibration: the interval is cleared
stopVibration == FALSE

\* an alarm fires and nothing is ringing: audio, vibration, setRingingAlarm, greeting
TickRing ==
    /\ ~effectsPending
    /\ Fires
    /\ ~IsEvent(alarms[TriggeredIdx])
    /\ CanRing(ringingAlarm)
    /\ triggeredItemsRef' = triggeredItemsRef \cup {secondKey}
    /\ alarmAudio' = PlayLooped(alarmAudio, ResolveSound(alarms[TriggeredIdx].soundId))
    /\ vibrationIntervalRef' = startAlarmVibration
    /\ ringingAlarm' = alarms[TriggeredIdx]
    /\ effectsPending' = TRUE
    /\ curGen' = secondKey
    /\ greetings' = IF online
                    THEN greetings \cup {[gen |-> secondKey,
                                          alarm |-> alarms[TriggeredIdx].id,
                                          stage |-> "text"]}
                    ELSE greetings
    /\ fx' = [NoFx EXCEPT !.op = "tick", !.key = secondKey,
                          !.fired = alarms[TriggeredIdx].id,
                          !.ring = alarms[TriggeredIdx].id, !.audio = TRUE,
                          !.vib = TRUE, !.greet = online]
    /\ overlay' = FreshOverlay
    /\ UNCHANGED dropped
    /\ timers' = [timers EXCEPT !.vibration =
                     (IF vibrationIntervalRef THEN ClearInterval(@) ELSE @) + 1]
    /\ UNCHANGED <<tz, online, now, alarms, nextId, ringingAlarmRef,
                   currentAiSourceRef, aiPlaying, eventNotification, bannerTimers,
                   matched, rampInterval, sampled,
                   customSounds, storage, isAiProcessing,
                   notificationThrows>>

\* a drop that leaves the key unrecorded
KeysAfterDropUnrecorded(keys, key) == keys

\* triggeredItemsRef.current.add(secondKey) comes before if (!ringingAlarm)
KeysAfterDrop(keys, key) == keys \cup {key}

\* an alarm fires while another is ringing: only the key is recorded
TickDrop ==
    /\ ~effectsPending
    /\ Fires
    /\ ~IsEvent(alarms[TriggeredIdx])
    /\ ~CanRing(ringingAlarm)
    /\ triggeredItemsRef' = KeysAfterDrop(triggeredItemsRef, secondKey)
    /\ dropped' = dropped \cup {secondKey}
    /\ fx' = [NoFx EXCEPT !.op = "tick", !.key = secondKey,
                          !.fired = alarms[TriggeredIdx].id]
    /\ UNCHANGED <<tz, online, now, alarms, nextId, ringingAlarm, ringingAlarmRef,
                   effectsPending, vibrationIntervalRef, alarmAudio,
                   currentAiSourceRef, aiPlaying, greetings, eventNotification,
                   bannerTimers, curGen,
                   matched, rampInterval, sampled,
                   overlay, customSounds, storage, isAiProcessing,
                   notificationThrows, timers>>

Tick == TickIdle \/ TickChime \/ TickRing \/ TickDrop

\* ---- handleDismissAlarm, called by the overlay (mounted while ringing) for the
\* gesture `gesture`; the render that follows unmounts the overlay

\* a call that switches between playing and paused
PauseAudioToggled(audio) == [audio EXCEPT !.paused = ~audio.paused]

\* alarmAudioRef.current.pause(); currentTime = 0
PauseAudio(audio) == [audio EXCEPT !.paused = TRUE]

\* the statements of handleDismissAlarm
DismissStatements(gesture, again) ==
    /\ alarmAudio' = PauseAudio(alarmAudio)
    /\ aiPlaying' = IF currentAiSourceRef # NoSource
                    THEN aiPlaying \ {currentAiSourceRef} ELSE aiPlaying
    /\ currentAiSourceRef' = NoSource
    /\ vibrationIntervalRef' = stopVibration
    /\ ringingAlarm' = NoAlarm
    /\ effectsPending' = TRUE
    /\ curGen' = <<>>
    /\ fx' = [NoFx EXCEPT !.op = "dismiss", !.gesture = gesture, !.again = again,
                          !.stopped = IF currentAiSourceRef \in aiPlaying
                                      THEN currentAiSourceRef.gen ELSE <<>>]
    /\ overlay' = FreshOverlay
    /\ UNCHANGED dropped
    /\ timers' = [timers EXCEPT !.vibration =
                     IF vibrationIntervalRef THEN ClearInterval(@) ELSE @]
    /\ UNCHANGED <<tz, online, now, alarms, nextId, ringingAlarmRef,
                   triggeredItemsRef, greetings, eventNotification, bannerTimers,
                   matched, rampInterval, sampled,
                   customSounds, storage, isAiProcessing,
                   notificationThrows>>

handleDismissAlarm(gesture) ==
    /\ ~effectsPending
    /\ ringingAlarm # NoAlarm
    /\ DismissStatements(gesture, FALSE)

\* onDismiss by one of the two gestures of the overlay, whichever
HandleDismissAlarm == handleDismissAlarm(<<>>)

\* onDismiss once more before the overlay is gone: the next move event of a drag that
\* is past the threshold calls the handler again
DismissAgain ==
    /\ fx.op = "dismiss"
    /\ effectsPending
    /\ DismissStatements(<<>>, TRUE)

\* ---- RingingAlarmOverlay: the slider and the double-tap button
\* containerRef.current.getBoundingClientRect()
Rect == [left |-> 40, width |-> 300]

\* const max = rect.width - 80
SliderMax == Rect.width - 80

\* const x = clientX - rect.left - 40; const val = Math.max(0, Math.min(x, max))
SliderVal(clientX) ==
    LET x == clientX - Rect.left - 40
        low == IF x < SliderMax THEN x ELSE SliderMax
    IN IF low > 0 THEN low ELSE 0

\* val >= max * 0.9
PastThreshold(val) == val * 10 >= SliderMax * 9

\* a test that takes every tap for the second of a pair
IsDoubleTapAlways(t, last) == TRUE

\* now - lastTapRef.current < 300
IsDoubleTap(t, last) == t - last < 300

\* where the pointer is when it moves, and how long after the last tap or the mount
\* a tap comes (ms)
PointerXs == {150, 277, 278}

TapGaps == {299, 300}

\* what changes on the overlay alone
OverlayUnchanged ==
    UNCHANGED <<tz, online, now, alarms, nextId, ringingAlarm, ringingAlarmRef,
                effectsPending, triggeredItemsRef, vibrationIntervalRef, alarmAudio,
                currentAiSourceRef, aiPlaying, greetings, eventNotification,
                bannerTimers, curGen, matched, rampInterval, sampled, customSounds,
                storage, isAiProcessing, notificationThrows, timers, dropped>>

\* onMouseDown / onTouchStart on the handle: setIsDragging(true)
OverlayPress ==
    /\ ~effectsPending
    /\ ringingAlarm # NoAlarm
    /\ overlay' = [overlay EXCEPT !.isDragging = TRUE]
    /\ fx' = [NoFx EXCEPT !.op = "press"]
    /\ OverlayUnchanged

\* mouseup / touchend on the window: setIsDragging(false); setSliderPos(0)
OverlayRelease ==
    /\ ~effectsPending
    /\ ringingAlarm # NoAlarm
    /\ overlay' = [overlay EXCEPT !.isDragging = FALSE, !.sliderPos = 0]
    /\ fx' = [NoFx EXCEPT !.op = "release"]
    /\ OverlayUnchanged

\* handleTouchMove / handleMouseMove
OverlayMove(clientX) ==
    /\ ~effectsPending
    /\ ringingAlarm # NoAlarm
    /\ IF overlay.isDragging /\ PastThreshold(SliderVal(clientX))
       THEN handleDismissAlarm(<<"move", clientX>>)
       ELSE /\ overlay' = IF overlay.isDragging
                          THEN [overlay EXCEPT !.sliderPos = SliderVal(clientX)]
                          ELSE overlay
            /\ fx' = [NoFx EXCEPT !.op = "move", !.gesture = <<"move", clientX>>]
            /\ OverlayUnchanged

\* handleDoubleTap, `gap` ms after the last tap (after the mount for the first)
OverlayTap(gap) ==
    /\ ~effectsPending
    /\ ringingAlarm # NoAlarm
    /\ overlay.ms + gap <= MountTime + MaxTapSpan
    /\ IF IsDoubleTap(overlay.ms + gap, overlay.lastTapRef)
       THEN handleDismissAlarm(<<"tap", gap>>)
       ELSE /\ overlay' = [overlay EXCEPT !.lastTapRef = overlay.ms + gap,
                                          !.ms = overlay.ms + gap]
            /\ fx' = [NoFx EXCEPT !.op = "tap", !.gesture = <<"tap", gap>>]
            /\ OverlayUnchanged

\* ---- playAiGreeting, one step per network answer
\* a start that leaves the previous source playing
StartNarrationOverlapping(playing, current, source) == playing \cup {source}

\* if (currentAiSourceRef.current) currentAiSourceRef.current.stop(); source.start()
StartNarration(playing, current, source) == (playing \ {current}) \cup {source}

GreetingUnchanged ==
    UNCHANGED <<tz, online, now, alarms, nextId, ringingAlarm, ringingAlarmRef,
                effectsPending, triggeredItemsRef, vibrationIntervalRef,
                eventNotification, bannerTimers, curGen,
                   matched, rampInterval, sampled,
                   overlay, customSounds, storage, isAiProcessing,
                   notificationThrows, timers, dropped>>

\* the first generateContent settles: the text arrives, or the call throws (catch: log)
GreetingText(g, ok) ==
    /\ g \in greetings
    /\ g.stage = "text"
    /\ greetings' = IF ok THEN (greetings \ {g}) \cup {[g EXCEPT !.stage = "tts"]}
                    ELSE greetings \ {g}
    /\ fx' = IF ok THEN NoFx
             ELSE [NoFx EXCEPT !.op = "greetingError", !.log = "Greeting Error:"]
    /\ UNCHANGED <<alarmAudio, currentAiSourceRef, aiPlaying>>
    /\ GreetingUnchanged

\* if (!ringingAlarmRef.current || ringingAlarmRef.current.id !== alarm.id) return;
StillActive(ref, alarmId) == ref # NoAlarm /\ ref.id = alarmId

\* the TTS call throws, or answers without inlineData: nothing is played
TtsNoAudio(g, thrown) ==
    /\ g \in greetings
    /\ g.stage = "tts"
    /\ greetings' = greetings \ {g}
    /\ fx' = [NoFx EXCEPT !.op = IF thrown THEN "greetingError" ELSE "noAudio",
                          !.log = IF thrown THEN "Greeting Error:" ELSE ""]
    /\ UNCHANGED <<alarmAudio, currentAiSourceRef, aiPlaying>>
    /\ GreetingUnchanged

\* the TTS call answers with audio but the check fails: silent return
TtsStale(g) ==
    /\ g \in greetings
    /\ g.stage = "tts"
    /\ ~StillActive(ringingAlarmRef, g.alarm)
    /\ greetings' = greetings \ {g}
    /\ fx' = [NoFx EXCEPT !.op = "tts", !.stale = g.gen]
    /\ UNCHANGED <<alarmAudio, currentAiSourceRef, aiPlaying>>
    /\ GreetingUnchanged

\* the TTS call answers with audio and the check passes: decode (the await of the
\* local decodeAudioData resumes in a microtask, no handler runs in between), stop
\* the previous source, start the new one, duck the alarm
TtsPlay(g) ==
    /\ g \in greetings
    /\ g.stage = "tts"
    /\ StillActive(ringingAlarmRef, g.alarm)
    /\ greetings' = greetings \ {g}
    /\ aiPlaying' = StartNarration(aiPlaying, currentAiSourceRef,
                                   [gen |-> g.gen, alarm |-> g.alarm])
    /\ currentAiSourceRef' = [gen |-> g.gen, alarm |-> g.alarm]
    /\ alarmAudio' = [alarmAudio EXCEPT !.volume = 150]
    /\ fx' = [NoFx EXCEPT !.op = "tts", !.play = g.gen,
                          !.stopped = IF currentAiSourceRef \in aiPlaying
                                      THEN currentAiSourceRef.gen ELSE <<>>]
    /\ GreetingUnchanged

\* a narration clip reaches its end (source.start() plays the buffer once)
AiSourceEnded(s) ==
    /\ s \in aiPlaying
    /\ aiPlaying' = aiPlaying \ {s}
    /\ fx' = NoFx
    /\ UNCHANGED <<alarmAudio, currentAiSourceRef, greetings>>
    /\ GreetingUnchanged

Greeting ==
    \/ \E g \in greetings, ok \in BOOLEAN : GreetingText(g, ok)
    \/ \E g \in greetings, thrown \in BOOLEAN : TtsNoAudio(g, thrown)
    \/ \E g \in greetings : TtsStale(g)
    \/ \E g \in greetings : TtsPlay(g)
    \/ \E s \in aiPlaying : AiSourceEnded(s)

\* ---- setTimeout(() => setEventNotification(null), 5000) of a chime comes due
ClearBanner ==
    /\ ~effectsPending
    /\ bannerTimers > 0
    /\ bannerTimers' = bannerTimers - 1
    /\ eventNotification' = 0
    /\ fx' = NoFx
    /\ UNCHANGED <<tz, online, now, alarms, nextId, ringingAlarm, ringingAlarmRef,
                   effectsPending, triggeredItemsRef, vibrationIntervalRef,
                   alarmAudio, currentAiSourceRef, aiPlaying, greetings, curGen,
                   matched, rampInterval, sampled,
                   overlay, customSounds, storage, isAiProcessing,
                   notificationThrows, timers, dropped>>

\* ---- the network comes or goes (navigator.onLine)
SetOnline ==
    /\ ~effectsPending
    /\ online' = ~online
    /\ fx' = NoFx
    /\ UNCHANGED <<tz, now, alarms, nextId, ringingAlarm, ringingAlarmRef,
                   effectsPending, triggeredItemsRef, vibrationIntervalRef,
                   alarmAudio, currentAiSourceRef, aiPlaying, greetings,
                   eventNotification, bannerTimers, curGen,
                   matched, rampInterval, sampled,
                   overlay, customSounds, storage, isAiProcessing,
                   notificationThrows, timers, dropped>>

\* ---- the alarm list: onSave, onDelete, onToggle; the render that follows runs
\* useEffect(() => localStorage.setItem('zora_alarms', JSON.stringify(alarms)), [alarms])
\* a ringing state that ends when its item is gone from the list or switched off
RingingFollowsList(ringing, list) ==
    IF \E i \in 1..Len(list) : list[i].id = ringing.id /\ list[i].isEnabled
    THEN ringing ELSE NoAlarm

\* the handlers of the list call setAlarms only: ringingAlarm keeps the object that
\* setRingingAlarm(triggered) stored
RingingAfterListChange(ringing, list) == ringing

ListUnchanged ==
    /\ ~effectsPending
    /\ UNCHANGED dropped
    /\ timers' = RestartTick(timers)
    /\ ringingAlarm' = RingingAfterListChange(ringingAlarm, alarms')
    /\ UNCHANGED <<tz, online, now, ringingAlarmRef, effectsPending,
                triggeredItemsRef,
                vibrationIntervalRef, alarmAudio, currentAiSourceRef, aiPlaying,
                greetings, eventNotification, bannerTimers, curGen,
                   matched, rampInterval, sampled,
                   overlay, customSounds, isAiProcessing,
                   notificationThrows>>
    /\ storage' = JsonStringify(alarms')

\* onSave without editingAlarm: append with a fresh id
AddAlarm(f) ==
    /\ nextId <= MaxIds
    /\ alarms' = Append(alarms, [handleSave(f) EXCEPT !.id = nextId])
    /\ nextId' = nextId + 1
    /\ fx' = NoFx
    /\ ListUnchanged

\* onSave with editingAlarm: prev.map(curr => curr.id === editingAlarm.id ?
\* { ...a, id: curr.id } : curr)
onSave(prev, editingId, a) ==
    [j \in 1..Len(prev) |->
        IF prev[j].id = editingId THEN [a EXCEPT !.id = prev[j].id] ELSE prev[j]]

\* onDelete: prev.filter(a => a.id !== id)
onDelete(prev, id) ==
    LET keep(a) == a.id # id IN SelectSeq(prev, keep)

\* a toggle that flips every alarm of the list
onToggleEvery(prev, id) ==
    [j \in 1..Len(prev) |-> [prev[j] EXCEPT !.isEnabled = ~prev[j].isEnabled]]

\* onToggle: prev.map(a => a.id === id ? { ...a, isEnabled: !a.isEnabled } : a)
onToggle(prev, id) ==
    [j \in 1..Len(prev) |->
        IF prev[j].id = id THEN [prev[j] EXCEPT !.isEnabled = ~prev[j].isEnabled]
        ELSE prev[j]]

\* Save in the modal opened on the item at position i of the list
EditAlarm(i, f) ==
    /\ i \in 1..Len(alarms)
    /\ alarms' = onSave(alarms, alarms[i].id, handleSave(f))
    /\ fx' = NoFx
    /\ UNCHANGED nextId
    /\ ListUnchanged

\* the delete button of the item at position i
DeleteAlarm(i) ==
    /\ i \in 1..Len(alarms)
    /\ alarms' = onDelete(alarms, alarms[i].id)
    /\ fx' = NoFx
    /\ UNCHANGED nextId
    /\ ListUnchanged

\* the switch of the item at position i
ToggleAlarm(i) ==
    /\ i \in 1..Len(alarms)
    /\ alarms' = onToggle(alarms, alarms[i].id)
    /\ fx' = NoFx
    /\ UNCHANGED nextId
    /\ ListUnchanged

\* the same three handlers with the handler and its argument kept in fx
EditAlarmOf(i, f) ==
    /\ i \in 1..Len(alarms)
    /\ alarms' = onSave(alarms, alarms[i].id, handleSave(f))
    /\ fx' = [NoFx EXCEPT !.op = "edit", !.target = alarms[i].id,
                        !.was = <<alarms[i].isEnabled>>]
    /\ UNCHANGED nextId
    /\ ListUnchanged

DeleteAlarmOf(i) ==
    /\ i \in 1..Len(alarms)
    /\ alarms' = onDelete(alarms, alarms[i].id)
    /\ fx' = [NoFx EXCEPT !.op = "delete", !.target = alarms[i].id]
    /\ UNCHANGED nextId
    /\ ListUnchanged

ToggleAlarmOf(i) ==
    /\ i \in 1..Len(alarms)
    /\ alarms' = onToggle(alarms, alarms[i].id)
    /\ fx' = [NoFx EXCEPT !.op = "toggle", !.target = alarms[i].id]
    /\ UNCHANGED nextId
    /\ ListUnchanged

\* ---- handleQuickAdd
QuickAddUnchanged ==
    UNCHANGED <<tz, online, now, ringingAlarm, ringingAlarmRef, effectsPending,
                triggeredItemsRef, vibrationIntervalRef, alarmAudio,
                currentAiSourceRef, aiPlaying, greetings, eventNotification,
                bannerTimers, curGen, matched, rampInterval, sampled, overlay,
                customSounds, notificationThrows>>

\* the text of the input field, character by character
QuickAddTexts == {<<>>, <<" ">>, <<" ", " ">>, <<"7">>, <<" ", "7">>, <<"7", " ">>}

\* a trim that removes nothing
TrimNothing(value) == value

\* String.prototype.trim: the white space at both ends is removed
Trim(value) ==
    LET first == IF \E i \in 1..Len(value) : value[i] # " "
                 THEN CHOOSE i \in 1..Len(value) :
                          value[i] # " " /\ \A k \in 1..(i - 1) : value[k] = " "
                 ELSE Len(value) + 1
        last == IF \E i \in 1..Len(value) : value[i] # " "
                THEN CHOOSE i \in 1..Len(value) :
                         value[i] # " " /\ \A k \in (i + 1)..Len(value) : value[k] = " "
                ELSE Len(value)
    IN SubSeq(value, first, last)

\* the form is submitted with `value` in the field. QuickAddInput.handleSubmit returns
\* when the trimmed value is empty or isLoading; handleQuickAdd, offline, alerts and
\* returns; online it calls setIsAiProcessing(true) and sends the request
QuickAddSubmit(value) ==
    LET called == Trim(value) # <<>> /\ ~isAiProcessing
        requested == called /\ online
    IN /\ ~effectsPending
       /\ isAiProcessing' = (isAiProcessing \/ requested)
       /\ fx' = [NoFx EXCEPT !.op = "quickAdd", !.text = value, !.sent = requested,
                             !.log = IF called /\ ~online
                                     THEN "Quick Add requires an internet connection."
                                     ELSE ""]
       /\ UNCHANGED <<alarms, nextId, storage>>
       /\ UNCHANGED <<timers, dropped>>
       /\ QuickAddUnchanged

\* what the model answers: time, date and type
QuickAddResults == [time : Times, date : {0}, type : Types]

\* the answer parses: the new item is appended, then finally setIsAiProcessing(false)
QuickAddDone(result) ==
    /\ isAiProcessing
    /\ nextId <= MaxIds
    /\ alarms' = Append(alarms, [id |-> nextId, time |-> result.time,
                                 type |-> result.type,
                                 specificDates |-> {result.date}, dateRange |-> <<>>,
                                 repeatDays |-> {}, isEnabled |-> TRUE,
                                 soundId |-> "classic", isAiEnabled |-> TRUE])
    /\ nextId' = nextId + 1
    /\ storage' = JsonStringify(alarms')
    /\ isAiProcessing' = FALSE
    /\ fx' = [NoFx EXCEPT !.op = "quickAddDone"]
    /\ UNCHANGED dropped
    /\ timers' = RestartTick(timers)
    /\ QuickAddUnchanged

\* the request or JSON.parse throws: the catch logs, then finally
QuickAddFailed ==
    /\ isAiProcessing
    /\ isAiProcessing' = FALSE
    /\ fx' = [NoFx EXCEPT !.op = "quickAddFailed", !.log = "Quick Add failed"]
    /\ UNCHANGED <<alarms, nextId, storage>>
    /\ UNCHANGED <<timers, dropped>>
    /\ QuickAddUnchanged

\* ---- the page is loaded again: the state after construction, the list read from
\* localStorage (and written back by the effect of the first render)
Reload ==
    /\ alarms' = JsonParse(storage)
    /\ storage' = JsonStringify(alarms')
    /\ ringingAlarm' = NoAlarm
    /\ ringingAlarmRef' = NoAlarm
    /\ effectsPending' = FALSE
    /\ triggeredItemsRef' = {}
    /\ vibrationIntervalRef' = FALSE
    /\ alarmAudio' = [src |-> "", loop |-> FALSE, paused |-> TRUE, volume |-> 1000]
    /\ currentAiSourceRef' = NoSource
    /\ aiPlaying' = {}
    /\ greetings' = {}
    /\ eventNotification' = 0
    /\ bannerTimers' = 0
    /\ curGen' = <<>>
    /\ rampInterval' = FALSE
    /\ sampled' = -1
    /\ overlay' = FreshOverlay
    /\ isAiProcessing' = FALSE
    /\ fx' = [NoFx EXCEPT !.op = "reload"]
    /\ timers' = [tick |-> 1, vibration |-> 0, ramp |-> 0]
    /\ dropped' = {}
    /\ UNCHANGED <<tz, online, now, nextId, matched, customSounds, notificationThrows>>

\* ---- the list and its copy in localStorage, through every way of changing it
NextStorage ==
    \/ \E f \in FormInputs : AddAlarm(f)
    \/ \E i \in 1..Len(alarms), f \in FormInputs : EditAlarm(i, f)
    \/ \E i \in 1..Len(alarms) : DeleteAlarm(i)
    \/ \E i \in 1..Len(alarms) : ToggleAlarm(i)
    \/ SetOnline
    \/ \E value \in QuickAddTexts : QuickAddSubmit(value)
    \/ \E result \in QuickAddResults : QuickAddDone(result)
    \/ QuickAddFailed
    \/ Reload

SpecStorage == Init /\ [][NextStorage]_vars

\* the ringing lifecycle with the narration path, over day 0 in a UTC host
Next ==
    \/ Advance({0})
    \/ Tick
    \/ HandleDismissAlarm
    \/ SyncRingingAlarmRef
    \/ Greeting
    \/ SetOnline
    \/ \E f \in FormInputs : AddAlarm(f)
    \/ \E i \in 1..Len(alarms), f \in FormInputs : EditAlarm(i, f)

Spec == Init /\ [][Next]_vars

\* the same, with what the runtime guarantees: the clock moves on, the interval
\* timer calls the tick, and effects run after their render. No answer of the
\* network is guaranteed.
SpecLive ==
    /\ Init /\ [][Next]_vars
    /\ WF_vars(Advance({0})) /\ WF_vars(Tick) /\ WF_vars(SyncRingingAlarmRef)

\* an offline host in any zone, over days 0..MaxDay, that keeps one item at a time
\* and does every mutation of it
NextOffline ==
    \/ Advance(Days)
    \/ Tick
    \/ HandleDismissAlarm
    \/ SyncRingingAlarmRef
    \/ \E f \in FormInputs \cup FormInputsWeekly : alarms = <<>> /\ AddAlarm(f)
    \/ \E i \in 1..Len(alarms), f \in FormInputs \cup FormInputsWeekly : EditAlarm(i, f)
    \/ \E i \in 1..Len(alarms) : DeleteAlarm(i)
    \/ \E i \in 1..Len(alarms) : ToggleAlarm(i)

SpecOffline == InitOffline /\ [][NextOffline]_vars

\* an offline UTC host over day 0 that starts from a saved list and only toggles items
NextStored ==
    \/ Advance({0})
    \/ Tick
    \/ HandleDismissAlarm
    \/ SyncRingingAlarmRef
    \/ \E i \in 1..Len(alarms) : ToggleAlarm(i)

SpecStored == InitStored /\ [][NextStored]_vars

\* ---- the list is changed while an alarm rings: an offline UTC host over day 0 that
\* starts from a saved list of up to MaxIds items
InitMutate ==
    Start({0}, {FALSE}, {WithIds(l) : l \in {k \in StoredLists : Len(k) <= MaxIds}})

NextMutate ==
    \/ Advance({0})
    \/ Tick
    \/ HandleDismissAlarm
    \/ SyncRingingAlarmRef
    \/ \E i \in 1..Len(alarms), f \in FormInputs : EditAlarm(i, f)
    \/ \E i \in 1..Len(alarms) : DeleteAlarm(i)
    \/ \E i \in 1..Len(alarms) : ToggleAlarm(i)

SpecMutate == InitMutate /\ [][NextMutate]_vars

\* ---- the handlers of the list alone, over the same saved lists, each step keeping
\* the handler and its argument in fx
NextEdit ==
    \/ \E i \in 1..Len(alarms), f \in FormInputs : EditAlarmOf(i, f)
    \/ \E i \in 1..Len(alarms) : DeleteAlarmOf(i)
    \/ \E i \in 1..Len(alarms) : ToggleAlarmOf(i)

SpecEdit == InitMutate /\ [][NextEdit]_vars

\* ---- the banner of an event, in a host whose Notification constructor works and in
\* one where it throws, over saved lists of alarms and events
InitBanner ==
    StartWith({0}, {FALSE}, {WithIds(l) : l \in StoredLists}, {<<>>}, BOOLEAN)

NextBanner ==
    \/ Advance({0})
    \/ Tick
    \/ HandleDismissAlarm
    \/ SyncRingingAlarmRef
    \/ ClearBanner

SpecBanner == InitBanner /\ [][NextBanner]_vars

\* ---- the ringing screen: alarms saved with any sound id, a catalog of custom
\* sounds with one entry or none, and the gestures on the overlay
SoundIds == {"zen", "custom_1", "custom_2"}

CustomSoundLists == {<<>>, <<[id |-> "custom_1", url |-> "data:audio/1"]>>}

\* the forms of alarms with these sounds, and of one event
SoundForms ==
    [time : Times, type : {"alarm"}, specificDates : {{0}}, useRange : {FALSE},
     rangeFrom : {0}, rangeTo : {MaxDay}, repeatDays : {{}}, soundId : SoundIds]
        \cup {f \in FormInputs : f.type = "event" /\ f.time = Min(Times)}

StoredSoundLists ==
    UNION {[1..n -> {handleSave(f) : f \in SoundForms}] : n \in 1..MaxIds}

InitOverlay ==
    StartWith({0}, {FALSE}, {WithIds(l) : l \in StoredSoundLists}, CustomSoundLists,
              {FALSE})

NextOverlay ==
    \/ Advance({0})
    \/ Tick
    \/ SyncRingingAlarmRef
    \/ OverlayPress
    \/ OverlayRelease
    \/ \E clientX \in PointerXs : OverlayMove(clientX)
    \/ \E gap \in TapGaps : OverlayTap(gap)
    \/ DismissAgain

SpecOverlay == InitOverlay /\ [][NextOverlay]_vars

\* ---- isAlarmOnDate on its own, in a host of any zone
\* the date keys it is asked about: the days of the run, one before and two after
MatchDates == -1..(MaxDay + 2)

\* the occurrence fields of the alarms it is asked about (weekdays: 5 Fri, 6 Sat, 0 Sun)
MatchAlarms ==
    {[NoAlarm EXCEPT !.id = 1, !.isEnabled = TRUE, !.specificDates = sd,
                     !.dateRange = dr, !.repeatDays = rd] :
        sd \in SUBSET (0..MaxDay),
        dr \in {<<>>} \cup ((0..(MaxDay + 1)) \X (0..(MaxDay + 1))),
        rd \in SUBSET {5, 6, 0}}

\* one call per run: the result depends on the arguments and the zone only
MatchDate(a, d) ==
    /\ matched = <<>>
    /\ matched' = [alarm |-> a, date |-> d, result |-> isAlarmOnDate(a, d, tz)]
    /\ fx' = NoFx
    /\ UNCHANGED <<tz, online, now, alarms, nextId, ringingAlarm, ringingAlarmRef,
                   effectsPending, triggeredItemsRef, vibrationIntervalRef,
                   alarmAudio, currentAiSourceRef, aiPlaying, greetings,
                   eventNotification, bannerTimers, curGen, rampInterval, sampled,
                   overlay, customSounds, storage, isAiProcessing,
                   notificationThrows, timers, dropped>>

InitMatch == Start(TzOffsets, {FALSE}, {<<>>})

NextMatch == \E a \in MatchAlarms, d \in MatchDates : MatchDate(a, d)

SpecMatch == InitMatch /\ [][NextMatch]_vars

\* ---- the App with the volume ramp (src/unnamed/part_001): tick, ramp effect,
\* playImmediateAiGreeting and handleDismissAlarm. It has no vibration, no event
\* branch and no ringingAlarmRef. Volumes are thousandths, products rounded down.
RampUnchanged ==
    UNCHANGED <<tz, alarms, nextId, ringingAlarmRef, vibrationIntervalRef,
                eventNotification, bannerTimers, matched,
                overlay, customSounds, storage, isAiProcessing,
                   notificationThrows>>

\* audio.volume = Math.min(1, audio.volume * 1.3)
RampUp(v) == IF (v * 13) \div 10 >= 1000 THEN 1000 ELSE (v * 13) \div 10

\* the tick: triggered && !has(secondKey) && getSeconds() === 0 && !ringingAlarm
TickWithRamp ==
    /\ ~effectsPending
    /\ IF Fires /\ CanRing(ringingAlarm)
       THEN /\ triggeredItemsRef' = triggeredItemsRef \cup {secondKey}
            /\ alarmAudio' =
                  [PlayLooped(alarmAudio, ResolveSound(alarms[TriggeredIdx].soundId))
                      EXCEPT !.volume = IF online THEN 50 ELSE 800]
            /\ greetings' = IF online
                            THEN greetings \cup {[gen |-> secondKey,
                                                  alarm |-> alarms[TriggeredIdx].id,
                                                  stage |-> "text"]}
                            ELSE greetings
            /\ ringingAlarm' = alarms[TriggeredIdx]
            /\ effectsPending' = TRUE
            /\ curGen' = secondKey
            /\ fx' = [NoFx EXCEPT !.op = "tick", !.key = secondKey,
                                  !.fired = alarms[TriggeredIdx].id,
                                  !.ring = alarms[TriggeredIdx].id, !.audio = TRUE,
                                  !.greet = online]
       ELSE /\ fx' = [NoFx EXCEPT !.op = "tick"]
            /\ UNCHANGED <<triggeredItemsRef, alarmAudio, greetings, ringingAlarm,
                           effectsPending, curGen>>
    /\ UNCHANGED <<online, now, currentAiSourceRef, aiPlaying, rampInterval, sampled>>
    /\ dropped' = IF Fires /\ ~CanRing(ringingAlarm)
                  THEN dropped \cup {secondKey} ELSE dropped
    /\ UNCHANGED timers
    /\ RampUnchanged

\* the ramp effect after a render that changed ringingAlarm: the cleanup clears the
\* old interval; while ringing the volume is set and a new interval created
VolumeRampEffect ==
    /\ effectsPending
    /\ effectsPending' = FALSE
    /\ rampInterval' = (ringingAlarm # NoAlarm)
    /\ alarmAudio' = IF ringingAlarm # NoAlarm
                     THEN [alarmAudio EXCEPT !.volume = IF online THEN 50 ELSE 200]
                     ELSE alarmAudio
    /\ sampled' = -1
    /\ fx' = NoFx
    /\ UNCHANGED <<online, now, ringingAlarm, triggeredItemsRef, currentAiSourceRef,
                   aiPlaying, greetings, curGen>>
    /\ UNCHANGED dropped
    /\ timers' = [RestartTick(timers) EXCEPT !.ramp =
                     (IF rampInterval THEN ClearInterval(@) ELSE @)
                         + (IF ringingAlarm # NoAlarm THEN 1 ELSE 0)]
    /\ RampUnchanged

\* the ramp interval's callback, every 3 s
RampStep ==
    /\ rampInterval
    /\ alarmAudio' = IF alarmAudio.volume < 1000
                     THEN [alarmAudio EXCEPT !.volume = RampUp(alarmAudio.volume)]
                     ELSE alarmAudio
    /\ sampled' = alarmAudio'.volume
    /\ fx' = [NoFx EXCEPT !.op = "ramp"]
    /\ UNCHANGED <<online, now, ringingAlarm, effectsPending, triggeredItemsRef,
                   currentAiSourceRef, aiPlaying, greetings, curGen, rampInterval>>
    /\ UNCHANGED <<timers, dropped>>
    /\ RampUnchanged

\* playImmediateAiGreeting: the text arrives
ImmediateGreetingText(g) ==
    /\ g \in greetings
    /\ g.stage = "text"
    /\ greetings' = (greetings \ {g}) \cup {[g EXCEPT !.stage = "tts"]}
    /\ fx' = NoFx
    /\ UNCHANGED <<online, now, ringingAlarm, effectsPending, triggeredItemsRef,
                   alarmAudio, currentAiSourceRef, aiPlaying, curGen, rampInterval,
                   sampled>>
    /\ UNCHANGED <<timers, dropped>>
    /\ RampUnchanged

\* either call throws: the catch logs and sets the volume to 0.8
ImmediateGreetingFailed(g) ==
    /\ g \in greetings
    /\ greetings' = greetings \ {g}
    /\ alarmAudio' = [alarmAudio EXCEPT !.volume = 800]
    /\ fx' = [NoFx EXCEPT !.op = "greetingError",
                          !.log = "Immediate AI Greeting failed"]
    /\ UNCHANGED <<online, now, ringingAlarm, effectsPending, triggeredItemsRef,
                   currentAiSourceRef, aiPlaying, curGen, rampInterval, sampled>>
    /\ UNCHANGED <<timers, dropped>>
    /\ RampUnchanged

\* the TTS answer has no inlineData: nothing happens
ImmediateGreetingEmpty(g) ==
    /\ g \in greetings
    /\ g.stage = "tts"
    /\ greetings' = greetings \ {g}
    /\ fx' = [NoFx EXCEPT !.op = "noAudio"]
    /\ UNCHANGED <<online, now, ringingAlarm, effectsPending, triggeredItemsRef,
                   alarmAudio, currentAiSourceRef, aiPlaying, curGen, rampInterval,
                   sampled>>
    /\ UNCHANGED <<timers, dropped>>
    /\ RampUnchanged

\* the TTS answer has audio: it is played (there is no check), the volume set to 0.1
ImmediateGreetingPlay(g) ==
    /\ g \in greetings
    /\ g.stage = "tts"
    /\ greetings' = greetings \ {g}
    /\ aiPlaying' = StartNarration(aiPlaying, currentAiSourceRef,
                                   [gen |-> g.gen, alarm |-> g.alarm])
    /\ currentAiSourceRef' = [gen |-> g.gen, alarm |-> g.alarm]
    /\ alarmAudio' = [alarmAudio EXCEPT !.volume = 100]
    /\ fx' = [NoFx EXCEPT !.op = "tts", !.play = g.gen]
    /\ UNCHANGED <<online, now, ringingAlarm, effectsPending, triggeredItemsRef,
                   curGen, rampInterval, sampled>>
    /\ UNCHANGED <<timers, dropped>>
    /\ RampUnchanged

\* handleDismissAlarm of this App: pause, loop = false, stop the narration
HandleDismissAlarmRamp ==
    /\ ~effectsPending
    /\ ringingAlarm # NoAlarm
    /\ alarmAudio' = [alarmAudio EXCEPT !.paused = TRUE, !.loop = FALSE]
    /\ aiPlaying' = aiPlaying \ {currentAiSourceRef}
    /\ currentAiSourceRef' = NoSource
    /\ ringingAlarm' = NoAlarm
    /\ effectsPending' = TRUE
    /\ curGen' = <<>>
    /\ fx' = [NoFx EXCEPT !.op = "dismiss"]
    /\ UNCHANGED <<online, now, triggeredItemsRef, greetings, rampInterval, sampled>>
    /\ UNCHANGED <<timers, dropped>>
    /\ RampUnchanged

\* saved lists of alarms only
StoredAlarmLists ==
    UNION {[1..n -> {handleSave(f) : f \in {h \in FormInputs : h.type = "alarm"}}] :
              n \in 1..MaxIds}

InitRamp == Start({0}, BOOLEAN, {WithIds(l) : l \in StoredAlarmLists})

NextRamp ==
    \/ Advance({0})
    \/ TickWithRamp
    \/ VolumeRampEffect
    \/ RampStep
    \/ HandleDismissAlarmRamp
    \/ \E g \in greetings : ImmediateGreetingText(g)
    \/ \E g \in greetings : ImmediateGreetingFailed(g)
    \/ \E g \in greetings : ImmediateGreetingEmpty(g)
    \/ \E g \in greetings : ImmediateGreetingPlay(g)

SpecRamp == InitRamp /\ [][NextRamp]_vars

\* ---------------------------------------------------------------- claims
\* the enabled items of the list that match the clock reading, by kind
DueIds(kind) ==
    {alarms[i].id : i \in {j \in 1..Len(alarms) :
        /\ alarms[j].type = kind
        /\ IsDue(alarms[j], CurrentTimeStr(now, tz), formatDateKey(now), tz)}}

\* the tick that evaluates a minute for the first time, at its second 0
FirstTickOfMinute ==
    fx'.op = "tick" /\ getSeconds(now) = 0 /\ secondKey \notin triggeredItemsRef

\* C1: at most one alarm rings: the looped audio and the vibration interval run only
\* while an alarm is ringing and the audio plays that alarm's sound; a tick that
\* finds an alarm due while another is ringing leaves the ringing alarm, the audio
\* element, the vibration interval and the greeting requests as they were.
C1_RingingHoldsPriority ==
    [][ /\ (~alarmAudio'.paused \/ vibrationIntervalRef') => ringingAlarm' # NoAlarm
        /\ ringingAlarm' # NoAlarm =>
              /\ ~alarmAudio'.paused /\ alarmAudio'.loop /\ vibrationIntervalRef'
              /\ alarmAudio'.src = ResolveSound(ringingAlarm'.soundId)
        /\ (ringingAlarm # NoAlarm /\ fx'.op = "tick") =>
              /\ ringingAlarm' = ringingAlarm
              /\ alarmAudio' = alarmAudio
              /\ vibrationIntervalRef' = vibrationIntervalRef
              /\ greetings' = greetings
              /\ curGen' = curGen
              /\ fx'.ring = 0 /\ ~fx'.audio /\ ~fx'.vib /\ ~fx'.greet ]_vars

\* an alarm other than the ringing one came due, passed the gate and was dropped
C1_DroppedWhileRinging ==
    /\ fx.op = "tick" /\ fx.fired # 0 /\ fx.ring = 0 /\ fx.chime = 0
    /\ ringingAlarm # NoAlarm /\ fx.fired # ringingAlarm.id
    /\ ~alarmAudio.paused /\ vibrationIntervalRef

\* C2: an alarm whose only occurrence field is specificDates = {D} fires only while
\* the host's clock reads date D (here D = day 0), so not at T:00 of the day after.
C2_FiresOnlyOnItsDate ==
    \A i \in 1..Len(alarms) :
        ( /\ fx.op = "tick" /\ fx.fired = alarms[i].id
          /\ alarms[i].specificDates = {0}
          /\ alarms[i].dateRange = <<>> /\ alarms[i].repeatDays = {} )
        => LocalDate(now, tz) = 0

\* C3: the set of consumed keys never shrinks; a key passes the gate only if it was
\* not consumed and is consumed from then on; nothing else enters the set; a tick
\* whose key is already consumed fires nothing.
C3_GatePassesOncePerKey ==
    [][ /\ triggeredItemsRef \subseteq triggeredItemsRef'
        /\ fx'.key # <<>> =>
              /\ fx'.key \notin triggeredItemsRef
              /\ triggeredItemsRef' = triggeredItemsRef \cup {fx'.key}
        /\ fx'.key = <<>> => triggeredItemsRef' = triggeredItemsRef
        /\ (fx'.op = "tick" /\ secondKey \in triggeredItemsRef) =>
              fx'.fired = 0 /\ fx'.key = <<>> ]_vars

\* a due item is checked again at second 0 of a minute whose key is consumed, and is rejected
C3_RejectedSecondCheck ==
    /\ fx.op = "tick" /\ fx.key = <<>> /\ fx.fired = 0
    /\ getSeconds(now) = 0 /\ TriggeredIdx # 0
    /\ secondKey \in triggeredItemsRef

\* C4: the answer to a greeting whose ringing context was dismissed starts no
\* narration playback and leaves the volume of the alarm audio alone.
C4_DismissedGreetingDiscarded ==
    [][ \A g \in greetings :
          (g.gen # curGen /\ g \notin greetings') =>
              /\ aiPlaying' \subseteq aiPlaying
              /\ currentAiSourceRef' = currentAiSourceRef
              /\ alarmAudio'.volume = alarmAudio.volume ]_vars

\* C5: while an alarm rings, the narration that starts playing is the one that was
\* requested by the ringing context that is live.
C5_NarrationOfLiveContextOnly ==
    (fx.play # <<>> /\ ringingAlarm # NoAlarm) => fx.play = curGen

\* C6: narration is audible only while an alarm rings, and it is narration that was
\* requested for the alarm that rings.
C6_NarrationOnlyWhileRinging ==
    \A s \in aiPlaying : ringingAlarm # NoAlarm /\ s.alarm = ringingAlarm.id

\* C7: when nothing rings and at least two enabled alarms are due at the first tick
\* of their minute, that tick makes one of them ring, with its ringing side effects.
C7_OneOfTwoDueAlarmsRings ==
    [][ (FirstTickOfMinute /\ ringingAlarm = NoAlarm /\ Cardinality(DueIds("alarm")) >= 2)
        => /\ ringingAlarm'.id \in DueIds("alarm")
           /\ fx'.ring = ringingAlarm'.id /\ fx'.audio /\ fx'.vib ]_vars

\* C8: when an enabled event is due at the first tick of its minute while an alarm
\* is ringing, that tick chimes a due event and the ringing alarm goes on.
C8_EventChimesWhileRinging ==
    [][ (FirstTickOfMinute /\ ringingAlarm # NoAlarm /\ DueIds("event") # {})
        => /\ fx'.chime \in DueIds("event")
           /\ ringingAlarm' = ringingAlarm /\ alarmAudio' = alarmAudio ]_vars

\* C9: at the first tick of a minute every enabled event that is due chimes, and if
\* nothing rings and an alarm is due, a due alarm rings.
C9_EveryDueItemOccurs ==
    [][ FirstTickOfMinute =>
          /\ \A e \in DueIds("event") : fx'.chime = e
          /\ (ringingAlarm = NoAlarm /\ DueIds("alarm") # {}) =>
                fx'.ring \in DueIds("alarm") ]_vars

\* C10: in the state handleDismissAlarm leaves, nothing rings, the alarm audio is
\* paused, no narration is audible and its handle is null, and the vibration
\* interval is gone.
C10_DismissStopsEverything ==
    fx.op = "dismiss" =>
        /\ ringingAlarm = NoAlarm
        /\ alarmAudio.paused
        /\ aiPlaying = {} /\ currentAiSourceRef = NoSource
        /\ ~vibrationIntervalRef

\* a dismissal that stopped an audible narration
C10_DismissedWhileNarrating ==
    fx.op = "dismiss" /\ fx.stopped # <<>> /\ ringingAlarm = NoAlarm

\* C11: a tick that fires an alarm while nothing rings makes it the ringing alarm with
\* the looped audio playing, online or offline; while an alarm rings only
\* handleDismissAlarm ends the ringing or pauses the audio; a greeting that fails or
\* comes back empty leaves ringing alarm, audio playback and vibration as they were.
C11_RingsWhateverTheGreetingDoes ==
    [][ /\ (fx'.op = "tick" /\ fx'.fired # 0 /\ fx'.chime = 0 /\ ringingAlarm = NoAlarm) =>
              /\ fx'.ring = fx'.fired /\ ringingAlarm'.id = fx'.fired
              /\ ~alarmAudio'.paused /\ alarmAudio'.loop
        /\ (ringingAlarm # NoAlarm /\ fx'.op # "dismiss") =>
              ringingAlarm' = ringingAlarm /\ ~alarmAudio'.paused
        /\ fx'.op \in {"greetingError", "noAudio"} =>
              /\ ringingAlarm' = ringingAlarm
              /\ alarmAudio'.paused = alarmAudio.paused
              /\ vibrationIntervalRef' = vibrationIntervalRef ]_vars

\* a greeting has failed while its alarm rings on
C11_GreetingFailedStillRinging ==
    /\ fx.op = "greetingError" /\ ringingAlarm # NoAlarm
    /\ ~alarmAudio.paused /\ greetings = {}

\* the calendar weekday of date key d (0 = Sunday; day 0 is Friday 2024-03-01)
Weekday(d) == (d + 5) % 7

\* C12: isAlarmOnDate is true exactly when the date is one of specificDates, or lies
\* in the dateRange, or its calendar weekday is one of repeatDays; so an alarm with
\* none of the three matches no date.
C12_MatchesIffOneRuleHolds ==
    matched # <<>> =>
        (matched.result <=>
            \/ matched.date \in matched.alarm.specificDates
            \/ /\ matched.alarm.dateRange # <<>>
               /\ matched.alarm.dateRange[1] <= matched.date
               /\ matched.date <= matched.alarm.dateRange[2]
            \/ Weekday(matched.date) \in matched.alarm.repeatDays)

\* C13: for an alarm that has only repeatDays, isAlarmOnDate is true exactly on the
\* dates whose calendar weekday is one of them, in every host zone.
C13_WeeklyMatchesCalendarWeekday ==
    ( /\ matched # <<>>
      /\ matched.alarm.specificDates = {} /\ matched.alarm.dateRange = <<>>
      /\ matched.alarm.repeatDays # {} )
    => (matched.result <=> Weekday(matched.date) \in matched.alarm.repeatDays)

\* an alarm that has only a dateRange
OnlyRange(a) == a.specificDates = {} /\ a.repeatDays = {} /\ a.dateRange # <<>>

\* C14 (amended): for an alarm that has only dateRange = [from, to] with from <= to,
\* isAlarmOnDate is true for from, for to and for the dates between them and false
\* for every other date, the day before from and the day after to among them.
C14_RangeInclusive ==
    ( /\ matched # <<>> /\ OnlyRange(matched.alarm)
      /\ matched.alarm.dateRange[1] <= matched.alarm.dateRange[2] )
    => (matched.result <=>
            /\ matched.alarm.dateRange[1] <= matched.date
            /\ matched.date <= matched.alarm.dateRange[2])

\* a date strictly inside a range is asked about and matches; so does the last day
C14_InsideRange ==
    /\ matched # <<>> /\ OnlyRange(matched.alarm)
    /\ matched.alarm.dateRange[1] < matched.date
    /\ matched.date < matched.alarm.dateRange[2]
    /\ matched.result

\* C14 as stated: for an alarm that has only dateRange = [from, to], isAlarmOnDate
\* is true for from, for to and for every date strictly between them.
C14_RangeEndsMatch ==
    ( /\ matched # <<>> /\ OnlyRange(matched.alarm)
      /\ \/ matched.date = matched.alarm.dateRange[1]
         \/ matched.date = matched.alarm.dateRange[2]
         \/ /\ matched.alarm.dateRange[1] < matched.date
            /\ matched.date < matched.alarm.dateRange[2] )
    => matched.result

\* C15: an alarm that has only repeatDays is fired only while the local weekday of
\* the clock reading is one of them, in every host zone.
C15_WeeklyFiresOnLocalWeekday ==
    \A i \in 1..Len(alarms) :
        ( /\ fx.op = "tick" /\ fx.fired = alarms[i].id
          /\ alarms[i].specificDates = {} /\ alarms[i].dateRange = <<>>
          /\ alarms[i].repeatDays # {} )
        => Weekday(LocalDate(now, tz)) \in alarms[i].repeatDays

\* the items whose time and date match the clock reading although they are disabled
DisabledMatches ==
    {i \in 1..Len(alarms) :
        /\ ~alarms[i].isEnabled
        /\ alarms[i].time = CurrentTimeStr(now, tz)
        /\ isAlarmOnDate(alarms[i], formatDateKey(now), tz)}

\* C16: the item a tick fires is enabled, a tick that fires nothing consumes no key,
\* and when the only items that match the reading are disabled the tick rings
\* nothing, chimes nothing and consumes no key.
C16_DisabledNeverFires ==
    [][ fx'.op = "tick" =>
          /\ \A i \in 1..Len(alarms) :
                 fx'.fired = alarms[i].id => alarms[i].isEnabled
          /\ fx'.fired = 0 => triggeredItemsRef' = triggeredItemsRef
          /\ (DueIds("alarm") \cup DueIds("event") = {}) =>
                 /\ fx'.fired = 0 /\ fx'.ring = 0 /\ fx'.chime = 0
                 /\ ringingAlarm' = ringingAlarm
                 /\ eventNotification' = eventNotification
                 /\ triggeredItemsRef' = triggeredItemsRef ]_vars

\* a tick at second 0 of a fresh minute found only a disabled item matching, and passed
C16_DisabledItemSkipped ==
    /\ fx.op = "tick" /\ fx.fired = 0 /\ getSeconds(now) = 0
    /\ DisabledMatches # {}
    /\ secondKey \notin triggeredItemsRef

\* C17: while an alarm rings, each volume sampled by the ramp callback is at least the
\* previous sample of the same ring and at most the ceiling 1.0.
C17_SampledVolumeNeverFalls ==
    [][ (fx'.op = "ramp" /\ ringingAlarm # NoAlarm /\ sampled # -1) =>
            sampled' >= sampled /\ sampled' <= 1000 ]_vars

\* C18: an alarm that rings is dismissed or its looped audio comes to full volume.
C18_VolumeReachesMax ==
    (ringingAlarm # NoAlarm) ~> (ringingAlarm = NoAlarm \/ alarmAudio.volume = 1000)

\* C19: when the clock leaves second 0 of a minute in which nothing rings and the
\* first matching item is an enabled alarm, the minute has been evaluated (its key is
\* consumed): the alarm rang in it. The process has run since an earlier reading.
C19_DueAlarmRingsInItsMinute ==
    [][ ( /\ now' # now /\ getSeconds(now) = 0
          /\ now > Min(Readings(tz, Days))
          /\ ringingAlarm = NoAlarm
          /\ TriggeredIdx # 0 /\ alarms[TriggeredIdx].type = "alarm" )
        => secondKey \in triggeredItemsRef ]_vars

\* C20: a tick requests a greeting only for an alarm whose isAiEnabled is true, and
\* only while the network is reachable.
C20_GreetingOnlyIfAiEnabled ==
    (fx.op = "tick" /\ fx.greet) => (ringingAlarm.isAiEnabled /\ online)

\* C21: a tick whose clock reading has seconds other than 0 starts no ring and no chime
\* and records no dedupe key, even when an item matches the minute and its key has
\* not been consumed.
C21_FiresOnlyAtSecondZero ==
    [][ (fx'.op = "tick" /\ getSeconds(now) # 0) =>
            /\ fx'.fired = 0 /\ fx'.key = <<>> /\ fx'.ring = 0 /\ fx'.chime = 0
            /\ triggeredItemsRef' = triggeredItemsRef
            /\ ringingAlarm' = ringingAlarm
            /\ alarmAudio' = alarmAudio
            /\ greetings' = greetings
            /\ eventNotification' = eventNotification ]_vars

\* a tick at second 1 of a minute with a matching item whose key was never recorded
C21_UnfiredMinuteSkipped ==
    /\ fx.op = "tick" /\ fx.fired = 0
    /\ getSeconds(now) # 0
    /\ TriggeredIdx # 0
    /\ secondKey \notin triggeredItemsRef

\* C22: a narration failure, whatever the stage it happens at, leaves the volume of the
\* looped alarm audio as it was.
C22_FailureKeepsVolume ==
    [][ fx'.op = "greetingError" => alarmAudio'.volume = alarmAudio.volume ]_vars

\* C23: the occurrence of an Event leaves the ringing state as it was: Idle stays Idle
\* (no looped audio, no ramp, no narration request) and a ringing alarm keeps ringing,
\* its audio and its vibration interval untouched; the Event only chimes.
C23_EventLeavesRingingState ==
    [][ (fx'.op = "tick" /\ fx'.fired # 0 /\ alarms[TriggeredIdx].type = "event") =>
            /\ fx'.chime = fx'.fired /\ fx'.ring = 0
            /\ ~fx'.audio /\ ~fx'.vib /\ ~fx'.greet
            /\ ringingAlarm' = ringingAlarm
            /\ alarmAudio' = alarmAudio
            /\ vibrationIntervalRef' = vibrationIntervalRef
            /\ rampInterval' = rampInterval
            /\ greetings' = greetings
            /\ aiPlaying' = aiPlaying
            /\ curGen' = curGen ]_vars

\* an event has chimed while an alarm rings with its audio and vibration running
C23_ChimedWhileRinging ==
    /\ fx.chime # 0
    /\ ringingAlarm # NoAlarm
    /\ ~alarmAudio.paused /\ alarmAudio.loop
    /\ vibrationIntervalRef

\* C24: every chime of an Event shows the banner of that event (and the banner is
\* cleared again after its 5 s).
C24_ChimeShowsBanner ==
    fx.chime # 0 => eventNotification = fx.chime

\* C25: a pointer move that reaches 90% of the track while a drag is active, and a tap less
\* than 300 ms after the previous tap, both call the dismiss handler and end in the same
\* state: not ringing, audio paused, vibration interval and narration stopped. A first
\* tap, a tap 300 ms or more after the previous one, and a pointer move without an
\* active drag or short of 90% leave the ringing state as it was.
C25_GesturesDismissAlike ==
    [][ fx'.gesture # <<>> =>
          LET g == fx'.gesture
              dragged == /\ g[1] = "move"
                         /\ overlay.isDragging
                         /\ 10 * SliderVal(g[2]) >= 9 * (Rect.width - 80)
              doubleTapped == /\ g[1] = "tap"
                              /\ overlay.lastTapRef # 0
                              /\ g[2] < 300
          IN IF dragged \/ doubleTapped
             THEN /\ fx'.op = "dismiss"
                  /\ ringingAlarm' = NoAlarm
                  /\ alarmAudio' = [alarmAudio EXCEPT !.paused = TRUE]
                  /\ vibrationIntervalRef' = FALSE
                  /\ currentAiSourceRef' = NoSource
                  /\ aiPlaying' = aiPlaying \ {currentAiSourceRef}
                  /\ UNCHANGED <<alarms, triggeredItemsRef, greetings, eventNotification>>
             ELSE /\ fx'.op # "dismiss"
                  /\ UNCHANGED <<ringingAlarm, alarmAudio, vibrationIntervalRef,
                                 currentAiSourceRef, aiPlaying, alarms,
                                 triggeredItemsRef, greetings>> ]_vars

\* the alarm was dismissed by the second of two taps 299 ms apart
C25_DismissedByDoubleTap ==
    /\ fx.op = "dismiss"
    /\ fx.gesture = <<"tap", 299>>
    /\ ringingAlarm = NoAlarm /\ alarmAudio.paused

\* C26: when an alarm starts to ring, whatever its soundId, the source of the looped audio
\* is the url of the catalog entry with that id if the catalog (default and custom
\* sounds) has one, the url of the first default sound otherwise, and never unset.
C26_SourceAlwaysResolved ==
    [][ fx'.ring # 0 =>
          LET catalog == DEFAULT_SOUNDS \o customSounds
              known == {i \in 1..Len(catalog) : catalog[i].id = ringingAlarm'.soundId}
          IN /\ alarmAudio'.src # ""
             /\ known # {} => \E i \in known : alarmAudio'.src = catalog[i].url
             /\ known = {} => alarmAudio'.src = DEFAULT_SOUNDS[1].url ]_vars

\* an alarm whose sound id has no catalog entry rings with the first default sound
C26_UnknownSoundFallsBack ==
    /\ fx.ring # 0
    /\ ringingAlarm.soundId = "custom_2"
    /\ \A i \in 1..Len(customSounds) : customSounds[i].id # "custom_2"
    /\ alarmAudio.src = DEFAULT_SOUNDS[1].url
    /\ ~alarmAudio.paused

\* C27: at most one narration clip plays at any time: a clip that starts playing is the
\* only one that plays, the one before it having been stopped.
C27_OneNarrationAtATime ==
    /\ Cardinality(aiPlaying) <= 1
    /\ fx.play # <<>> => aiPlaying = {currentAiSourceRef}

\* a narration started while the previous one was still playing, and it alone plays
C27_PreviousNarrationStopped ==
    /\ fx.play # <<>>
    /\ fx.stopped # <<>>
    /\ Cardinality(aiPlaying) = 1

\* C28: after every change of the list (add, edit, delete, toggle, quick add) the list
\* saved in localStorage is the list in memory, and loading at start-up gives back the
\* list that was saved last.
C28_StorageMirrorsList ==
    [][ /\ JsonParse(storage') = alarms'
        /\ fx'.op = "reload" => alarms' = alarms ]_vars

\* the page was loaded again with a saved list of a quick-added item and an event with a
\* date range, one of them switched off
C28_ReloadedSavedList ==
    /\ fx.op = "reload"
    /\ Len(alarms) = 2
    /\ \E i \in 1..2 : alarms[i].isAiEnabled
    /\ \E i \in 1..2 : alarms[i].dateRange # <<>>
    /\ \E i \in 1..2 : ~alarms[i].isEnabled
    /\ JsonParse(storage) = alarms

\* C29: the greeting request and the speech request are each made only while the network
\* is reachable, also when reachability has changed between the start of the ringing
\* and the second request.
C29_RequestsOnlyWhenOnline ==
    [][ /\ fx'.greet => online
        /\ \A g \in greetings :
              ( /\ g.stage = "text"
                /\ g \notin greetings'
                /\ [g EXCEPT !.stage = "tts"] \in greetings' ) => online ]_vars

\* C30: a narration result discarded as stale can be told from a failure by what is
\* logged or played: every failure (a request that throws, an answer without audio)
\* writes to the console, the stale discard does not.
C30_DiscardUnlikeFailure ==
    /\ fx.op \in {"greetingError", "noAudio"} => fx.log # ""
    /\ fx.stale # <<>> => fx.log = "" /\ fx.play = <<>>

C32_DismissTwiceIsDismissOnce ==
    [][ fx'.again =>
          UNCHANGED <<alarms, ringingAlarm, ringingAlarmRef, effectsPending,
                      triggeredItemsRef, vibrationIntervalRef, alarmAudio,
                      currentAiSourceRef, aiPlaying, greetings, eventNotification,
                      bannerTimers, curGen, overlay, storage, timers, dropped>> ]_vars

\* the handler ran a second time after a dismissal by a drag
C32_DismissedTwice ==
    /\ fx.op = "dismiss"
    /\ fx.again
    /\ ringingAlarm = NoAlarm /\ alarmAudio.paused /\ ~vibrationIntervalRef

\* C33: switching off, editing or deleting the item that is ringing leaves the state
\* Ringing with the same ringing alarm, its audio and vibration going on; the only step
\* from Ringing to Idle is the dismissal.
C33_OnlyDismissEndsRinging ==
    [][ /\ (ringingAlarm # NoAlarm /\ ringingAlarm' # ringingAlarm) =>
              (fx'.op = "dismiss" /\ ringingAlarm' = NoAlarm)
        /\ (ringingAlarm # NoAlarm /\ alarms' # alarms) =>
              UNCHANGED <<ringingAlarm, alarmAudio, vibrationIntervalRef>> ]_vars

\* an alarm rings on, audio and vibration running, and the list has no item
\* with its id any more
C33_RingingWithoutItsItem ==
    /\ ringingAlarm # NoAlarm
    /\ ~alarmAudio.paused /\ vibrationIntervalRef
    /\ \A i \in 1..Len(alarms) : alarms[i].id # ringingAlarm.id

\* C34: an occurrence of an alarm that was dropped because another alarm was ringing is
\* never rung later: no alarm starts ringing for the key of a dropped occurrence, in the
\* same minute after the dismissal of the blocking alarm or afterwards.
C34_DroppedNeverRingsLater ==
    [][ fx'.ring # 0 => fx'.key \notin dropped ]_vars

\* the blocking alarm has been dismissed and a tick at second 0 of the minute of the
\* dropped occurrence, its alarm still matching, starts nothing
C34_DroppedStaysSilent ==
    /\ fx.op = "tick" /\ fx.fired = 0
    /\ ringingAlarm = NoAlarm /\ ~effectsPending
    /\ getSeconds(now) = 0
    /\ secondKey \in dropped
    /\ TriggeredIdx # 0 /\ alarms[TriggeredIdx].type = "alarm"

C36_SavedEditEnabledOneDateForm ==
    fx.op = "edit" =>
        \A j \in 1..Len(alarms) :
            alarms[j].id = fx.target =>
                /\ alarms[j].isEnabled
                /\ ~(alarms[j].specificDates # {} /\ alarms[j].dateRange # <<>>)

\* an item that was switched off has just been saved from a form that holds a picked
\* date and a range: it is enabled and carries the range only
C36_DisabledItemSaved ==
    /\ fx.op = "edit" /\ fx.was = <<FALSE>>
    /\ \E j \in 1..Len(alarms) :
          /\ alarms[j].id = fx.target
          /\ alarms[j].isEnabled
          /\ alarms[j].dateRange # <<>> /\ alarms[j].specificDates = {}

\* C37: quick add leaves the alarm list unchanged when the network is unreachable and
\* when the extraction fails, and the processing flag is false once the call has
\* settled; a submit with a blank input, or while a request is loading, sends no request.
C37_QuickAddFailuresLeaveList ==
    [][ LET blank == \A i \in 1..Len(fx'.text) : fx'.text[i] = " "
        IN /\ (fx'.op = "quickAdd" /\ (~online \/ blank \/ isAiProcessing)) =>
                /\ ~fx'.sent
                /\ UNCHANGED <<alarms, storage, isAiProcessing>>
           /\ fx'.op = "quickAddFailed" =>
                /\ UNCHANGED <<alarms, storage>>
                /\ ~isAiProcessing'
           /\ fx'.op = "quickAddDone" => ~isAiProcessing' ]_vars

\* a request failed while the list held a saved item: the flag is down and the stored
\* list is the list
C37_FailedWithItemsKept ==
    /\ fx.op = "quickAddFailed"
    /\ ~isAiProcessing
    /\ Len(alarms) >= 1
    /\ storage = JsonStringify(alarms)
====
